---- MODULE Spec2Model ----
(***************************************************************************)
(* Model of calendar_app.py: the interactive loop of main, get_user_input, *)
(* format_date_info and display_calendar.                                  *)
(*                                                                         *)
(* A text typed by the user is a sequence of one-character strings.  A     *)
(* date is a tuple <<year, month, day>>.  A holiday table is a function    *)
(* from dates to holiday names.  A printed line is a record with a "kind"  *)
(* field.                                                                  *)
(***************************************************************************)
EXTENDS Integers, Sequences, FiniteSets, TLC

VARIABLES
  pc,               \* where main stands: the prompt it waits at or the call it makes
  year_text,        \* the text read at the year prompt
  month_text,       \* the text read at the month prompt
  year, month,      \* the parsed year and month, None when rejected
  continue_text,    \* the text read at the continue prompt
  continue_choice,  \* that text lower-cased and stripped
  japan_holidays,   \* the tables of the last display_calendar call
  us_holidays,
  out,              \* the lines printed by the last step
  raised,           \* the exception the last display_calendar call raised
  calls             \* the library calls the last display_calendar call made

vars == <<pc, year_text, month_text, year, month, continue_text,
          continue_choice, japan_holidays, us_holidays, out, raised, calls>>

(***************************************************************************)
(* Bounds of the model.                                                    *)
(***************************************************************************)
\* days 1..HolidayDays of the displayed month may be holidays of a table
HolidayDays == 2

(***************************************************************************)
(* Text primitives: str.strip, str.lower and int().                        *)
(***************************************************************************)
None == "None"

Whitespace == {" ", "\t"}

DigitChars == <<"0", "1", "2", "3", "4", "5", "6", "7", "8", "9">>

UpperChars == <<"Y", "E", "S", "N", "O", "M", "A", "B">>

LowerChars == <<"y", "e", "s", "n", "o", "m", "a", "b">>

IsDigit(c) == \E i \in 1..10 : DigitChars[i] = c

DigitVal(c) == (CHOOSE i \in 1..10 : DigitChars[i] = c) - 1

RECURSIVE lstrip(_)
lstrip(s) == IF s # <<>> /\ Head(s) \in Whitespace THEN lstrip(Tail(s)) ELSE s

RECURSIVE rstrip(_)
rstrip(s) ==
  IF s # <<>> /\ s[Len(s)] \in Whitespace
  THEN rstrip(SubSeq(s, 1, Len(s) - 1))
  ELSE s

strip(s) == rstrip(lstrip(s))

LowerChar(c) ==
  IF \E i \in DOMAIN UpperChars : UpperChars[i] = c
  THEN LowerChars[CHOOSE i \in DOMAIN UpperChars : UpperChars[i] = c]
  ELSE c

lower(s) == [i \in DOMAIN s |-> LowerChar(s[i])]

\* the digits of an int() literal: digits with single underscores between them
IsIntBody(b) ==
  /\ b # <<>>
  /\ \A i \in DOMAIN b : IsDigit(b[i]) \/ b[i] = "_"
  /\ IsDigit(b[1]) /\ IsDigit(b[Len(b)])
  /\ \A i \in 1..(Len(b) - 1) : ~(b[i] = "_" /\ b[i + 1] = "_")

RECURSIVE IntBodyValue(_, _)
IntBodyValue(b, acc) ==
  IF b = <<>> THEN acc
  ELSE IF Head(b) = "_" THEN IntBodyValue(Tail(b), acc)
  ELSE IntBodyValue(Tail(b), acc * 10 + DigitVal(Head(b)))

\* int(text): [ok |-> FALSE] stands for ValueError
ParseInt(text) ==
  LET t    == strip(text)
      sgn  == t # <<>> /\ Head(t) \in {"+", "-"}
      body == IF sgn THEN Tail(t) ELSE t
  IN  IF IsIntBody(body)
      THEN [ok |-> TRUE,
            val |-> IF sgn /\ Head(t) = "-"
                    THEN 0 - IntBodyValue(body, 0)
                    ELSE IntBodyValue(body, 0)]
      ELSE [ok |-> FALSE, val |-> 0]

(***************************************************************************)
(* Dates and the month grid: datetime.date and calendar.monthcalendar.     *)
(***************************************************************************)
MINYEAR == 1

MAXYEAR == 9999

DateLT(a, b) ==
  \/ a[1] < b[1]
  \/ a[1] = b[1] /\ a[2] < b[2]
  \/ a[1] = b[1] /\ a[2] = b[2] /\ a[3] < b[3]

isleap(y) == y % 4 = 0 /\ (y % 100 # 0 \/ y % 400 = 0)

mdays == <<31, 28, 31, 30, 31, 30, 31, 31, 30, 31, 30, 31>>

RECURSIVE DaysBeforeMonth(_, _)
DaysBeforeMonth(y, m) ==
  IF m = 1 THEN 0
  ELSE DaysBeforeMonth(y, m - 1) + mdays[m - 1]
       + (IF m - 1 = 2 /\ isleap(y) THEN 1 ELSE 0)

DaysBeforeYear(y) ==
  LET p == y - 1 IN p * 365 + (p \div 4) - (p \div 100) + (p \div 400)

\* date(y, m, d).toordinal(); 0001-01-01 is day 1
toordinal(y, m, d) == DaysBeforeYear(y) + DaysBeforeMonth(y, m) + d

\* calendar.weekday: 0 is Monday; years outside MINYEAR..MAXYEAR are folded
weekday(y, m, d) ==
  LET yy == IF y < MINYEAR \/ y > MAXYEAR THEN 2000 + (y % 400) ELSE y
  IN  (toordinal(yy, m, d) + 6) % 7

\* the number of days of month m of year y, for 1 <= m <= 12
DaysInMonth(y, m) == mdays[m] + (IF m = 2 /\ isleap(y) THEN 1 ELSE 0)

\* calendar.monthrange, for 1 <= m <= 12
monthrange(y, m) == [day1 |-> weekday(y, m, 1), ndays |-> DaysInMonth(y, m)]

\* Calendar(firstweekday=0).itermonthdays
itermonthdays(y, m) ==
  LET r      == monthrange(y, m)
      before == r.day1 % 7
      after  == (0 - r.day1 - r.ndays) % 7
  IN  [i \in 1..(before + r.ndays + after) |->
         IF i <= before \/ i > before + r.ndays THEN 0 ELSE i - before]

\* calendar.monthcalendar: the days cut into weeks of seven
monthcalendar(y, m) ==
  LET days == itermonthdays(y, m)
  IN  [w \in 1..(Len(days) \div 7) |-> SubSeq(days, 7 * (w - 1) + 1, 7 * w)]

weekdays == <<"Mon", "Tue", "Wed", "Thu", "Fri", "Sat", "Sun">>

(***************************************************************************)
(* The era library: japanera.EraDate.from_date and str(era_date).  The     *)
(* table holds the periods that cover the years the model renders.  For a  *)
(* date before the first period the library either raises or answers with  *)
(* a placeholder era, depending on its version: era_strict chooses.        *)
(***************************************************************************)
EraTable ==
  << [name |-> "Meiji",  start |-> <<1868, 1, 25>>],
     [name |-> "Taisho", start |-> <<1912, 7, 30>>],
     [name |-> "Showa",  start |-> <<1926, 12, 25>>],
     [name |-> "Heisei", start |-> <<1989, 1, 8>>],
     [name |-> "Reiwa",  start |-> <<2019, 5, 1>>] >>

EraIndex(date) ==
  LET S == {k \in DOMAIN EraTable : ~DateLT(date, EraTable[k].start)}
  IN  IF S = {} THEN 0 ELSE CHOOSE k \in S : \A j \in S : j <= k

from_date(date, era_strict) ==
  LET k == EraIndex(date)
  IN  IF k = 0
      THEN IF era_strict
           THEN [raised |-> "EraError", text |-> <<>>]
           ELSE [raised |-> "none", text |-> <<"?", date[1], date[2], date[3]>>]
      ELSE [raised |-> "none",
            text |-> <<EraTable[k].name, date[1] - EraTable[k].start[1] + 1,
                       date[2], date[3]>>]

(***************************************************************************)
(* format_date_info                                                        *)
(***************************************************************************)
\* first code point of the Japan marker, U+1F38C
JapanMarker == 127884

\* first code point of the US marker, U+1F1FA
USMarker == 127482

strftime(date) == [Y |-> date[1], m |-> date[2], d |-> date[3]]

\* a bug: the US table is looked up first
format_date_info_USFirst(date_obj, jh, uh, era_strict) ==
  LET era == from_date(date_obj, era_strict)
      jp  == IF date_obj \in DOMAIN jh
             THEN << [marker |-> JapanMarker, name |-> jh[date_obj]] >>
             ELSE <<>>
      us  == IF date_obj \in DOMAIN uh
             THEN << [marker |-> USMarker, name |-> uh[date_obj]] >>
             ELSE <<>>
  IN  [raised        |-> era.raised,
       western_date  |-> strftime(date_obj),
       japanese_date |-> era.text,
       holiday_info  |-> us \o jp]

format_date_info(date_obj, jh, uh, era_strict) ==
  LET era == from_date(date_obj, era_strict)
      jp  == IF date_obj \in DOMAIN jh
             THEN << [marker |-> JapanMarker, name |-> jh[date_obj]] >>
             ELSE <<>>
      us  == IF date_obj \in DOMAIN uh
             THEN << [marker |-> USMarker, name |-> uh[date_obj]] >>
             ELSE <<>>
  IN  [raised        |-> era.raised,
       western_date  |-> strftime(date_obj),
       japanese_date |-> era.text,
       holiday_info  |-> jp \o us]

(***************************************************************************)
(* display_calendar                                                        *)
(***************************************************************************)
\* datetime.date(y, m, d) raises ValueError unless this holds
DateValid(y, m, d) ==
  /\ MINYEAR <= y /\ y <= MAXYEAR
  /\ 1 <= m /\ m <= 12
  /\ 1 <= d /\ d <= DaysInMonth(y, m)

\* a bug: the first day is taken for a padding cell
IsEmptyDay_SkipsFirst(day) == day <= 1

IsEmptyDay(day) == day = 0

Banner(y, m) ==
  << [kind |-> "rule"], [kind |-> "title", year |-> y, month |-> m],
     [kind |-> "rule"], [kind |-> "header"], [kind |-> "dashes"] >>

\* the cells of the grid in the order the two loops visit them: week by
\* week, and in a week by position i
Cells(cal) ==
  [k \in 1..(7 * Len(cal)) |->
     [i   |-> ((k - 1) % 7) + 1,
      day |-> cal[((k - 1) \div 7) + 1][((k - 1) % 7) + 1]]]

CellIsDay(cell) == ~IsEmptyDay(cell.day)

\* what the body of the loop raises at a cell that is not skipped
CellRaises(cell, c) ==
  IF ~DateValid(c.year, c.month, cell.day) THEN "ValueError"
  ELSE format_date_info(<<c.year, c.month, cell.day>>, c.jh, c.uh,
                        c.era_strict).raised

CellRow(cell, c) ==
  LET f == format_date_info(<<c.year, c.month, cell.day>>, c.jh, c.uh,
                            c.era_strict)
  IN  [kind          |-> "row",
       day           |-> cell.day,
       weekday       |-> weekdays[cell.i],
       western_date  |-> f.western_date,
       japanese_date |-> f.japanese_date,
       holidays      |-> f.holiday_info]

\* the body of the loop run over the cells that are not skipped: the rows
\* printed before the first cell that raises, and what that cell raised
RowsOf(visited, c) ==
  LET bad  == {k \in DOMAIN visited : CellRaises(visited[k], c) # "none"}
      stop == IF bad = {} THEN Len(visited) + 1
              ELSE CHOOSE k \in bad : \A j \in bad : k <= j
  IN  [lines  |-> [k \in 1..(stop - 1) |-> CellRow(visited[k], c)],
       raised |-> IF bad = {} THEN "none" ELSE CellRaises(visited[stop], c)]

\* the loop over the weeks of cal and the cells of each week
DayRows(cal, c) == RowsOf(SelectSeq(Cells(cal), CellIsDay), c)

\* sorted(table.keys())
RECURSIVE SortedKeys(_)
SortedKeys(S) ==
  IF S = {} THEN <<>>
  ELSE LET lo == CHOOSE a \in S : \A b \in S : a = b \/ DateLT(a, b)
       IN  <<lo>> \o SortedKeys(S \ {lo})

\* a bug: the month of the date is not compared
InMonth_AnyMonth(date_obj, y, m) == date_obj[1] = y

InMonth(date_obj, y, m) == date_obj[1] = y /\ date_obj[2] = m

RECURSIVE MonthEntries(_, _, _, _, _, _)
MonthEntries(keys, table, marker, country, y, m) ==
  IF keys = <<>> THEN <<>>
  ELSE (IF InMonth(Head(keys), y, m)
        THEN << [date |-> Head(keys),
                 desc |-> [marker |-> marker, country |-> country,
                           name |-> table[Head(keys)]]] >>
        ELSE <<>>)
       \o MonthEntries(Tail(keys), table, marker, country, y, m)

\* the order of two (date, description) tuples: by date, then by the text of
\* the description, which the first code point decides when the markers differ
EntryLT(a, b) ==
  \/ DateLT(a.date, b.date)
  \/ a.date = b.date /\ a.desc.marker < b.desc.marker

RECURSIVE InsertEntry(_, _)
InsertEntry(e, s) ==
  IF s = <<>> THEN <<e>>
  ELSE IF EntryLT(e, Head(s)) THEN <<e>> \o s
  ELSE <<Head(s)>> \o InsertEntry(e, Tail(s))

\* sorted(month_holidays): a stable sort
RECURSIVE SortEntries(_)
SortEntries(s) ==
  IF s = <<>> THEN <<>>
  ELSE InsertEntry(s[Len(s)], SortEntries(SubSeq(s, 1, Len(s) - 1)))

month_holidays(y, m, jh, uh) ==
  MonthEntries(SortedKeys(DOMAIN jh), jh, JapanMarker, "Japan", y, m)
  \o MonthEntries(SortedKeys(DOMAIN uh), uh, USMarker, "US", y, m)

SummaryRaises(e, c) ==
  format_date_info(e.date, c.jh, c.uh, c.era_strict).raised

SummaryLine(e, c) ==
  LET f == format_date_info(e.date, c.jh, c.uh, c.era_strict)
  IN  [kind          |-> "summary",
       western_date  |-> f.western_date,
       japanese_date |-> f.japanese_date,
       desc          |-> e.desc]

\* the loop that prints the sorted entries
SummaryLines(entries, c) ==
  LET bad  == {k \in DOMAIN entries : SummaryRaises(entries[k], c) # "none"}
      stop == IF bad = {} THEN Len(entries) + 1
              ELSE CHOOSE k \in bad : \A j \in bad : k <= j
  IN  [lines  |-> [k \in 1..(stop - 1) |-> SummaryLine(entries[k], c)],
       raised |-> IF bad = {} THEN "none" ELSE SummaryRaises(entries[stop], c)]

Summary(c) ==
  LET mh == month_holidays(c.year, c.month, c.jh, c.uh)
  IN  IF mh # <<>>
      THEN LET s == SummaryLines(SortEntries(mh), c)
           IN  [lines  |-> << [kind |-> "summary_title", year |-> c.year,
                               month |-> c.month] >> \o s.lines,
                raised |-> s.raised]
      ELSE [lines  |-> << [kind |-> "no_holidays", year |-> c.year,
                           month |-> c.month] >>,
            raised |-> "none"]

EmptyTable == [d \in {} |-> ""]

\* One call of display_calendar(y, m).  lib says how the libraries answer:
\* lib.hol is "ok" or names the holiday constructor that raises, lib.jh and
\* lib.uh are the tables the constructors return, lib.era_strict is the era
\* library's behaviour before its first period.  The result holds the lines
\* printed, the library calls made, the tables built and the exception raised.
display_calendar(y, m, lib) ==
  LET jh == lib.jh
      uh == lib.uh
      c  == [year |-> y, month |-> m, jh |-> jh, uh |-> uh,
             era_strict |-> lib.era_strict]
  IN
  IF lib.hol = "japan_raises"
  THEN [out |-> <<>>, calls |-> <<"holidays.Japan">>, raised |-> "HolidayError",
        jh |-> EmptyTable, uh |-> EmptyTable]
  ELSE IF lib.hol = "us_raises"
  THEN [out |-> <<>>, calls |-> <<"holidays.Japan", "holidays.UnitedStates">>,
        raised |-> "HolidayError", jh |-> jh, uh |-> EmptyTable]
  ELSE LET calls3 == <<"holidays.Japan", "holidays.UnitedStates",
                       "calendar.monthcalendar">>
       IN
    IF m < 1 \/ m > 12
    THEN [out |-> <<>>, calls |-> calls3, raised |-> "IllegalMonthError",
          jh |-> jh, uh |-> uh]
    ELSE LET rows == DayRows(monthcalendar(y, m), c)
             head == Banner(y, m) \o rows.lines
         IN  IF rows.raised # "none"
             THEN [out |-> head, calls |-> calls3, raised |-> rows.raised,
                   jh |-> jh, uh |-> uh]
             ELSE LET s == Summary(c)
                      body == head \o << [kind |-> "dashes"] >> \o s.lines
                  IN  IF s.raised # "none"
                      THEN [out |-> body, calls |-> calls3,
                            raised |-> s.raised, jh |-> jh, uh |-> uh]
                      ELSE [out |-> body \o << [kind |-> "rule"] >>,
                            calls |-> calls3, raised |-> "none",
                            jh |-> jh, uh |-> uh]

(***************************************************************************)
(* What the user may type and what the libraries may answer.               *)
(***************************************************************************)
YearTexts ==
  { <<"2", "0", "2", "4">>, <<"2", "0", "2", "3">>, <<"1", "9", "0", "0">>,
    <<"2", "0", "0", "0">>, <<"1">>, <<"1", "0", "0", "0", "0">>,
    <<" ", "1", " ">>,
    <<"0">>, <<"-", "5">>, <<"a", "b", "c">>, <<>>, <<"2", "0", "2", "4", ".", "5">> }

MonthTexts ==
  { <<"1">>, <<"2">>, <<"3">>, <<"4">>, <<"5">>, <<"6">>, <<"7">>, <<"8">>,
    <<"9">>, <<"1", "0">>, <<"1", "1">>, <<"1", "2">>,
    <<"0", "_", "2">>, <<"0">>, <<"1", "3">>, <<"-", "1">>, <<"m", "a", "y">>,
    <<>> }

ContinueTexts ==
  { <<"y">>, <<"Y">>, <<"y", "e", "s">>, <<"Y", "E", "S">>, <<" ", "y">>,
    <<"n">>, <<"N">>, <<"n", "o">>, <<"N", "o">>, <<"n", "o", "\t">>,
    <<>>, <<"m", "a", "y", "b", "e">>, <<"y", "y">>, <<"n", " ", "o">>, <<"0">> }

JapanName(d) == IF d[3] = 1 THEN "Ganjitsu" ELSE "Furikae Kyujitsu"

USName(d) == IF d[3] = 1 THEN "New Year's Day" ELSE "Observed"

\* the dates a table built for year y may hold, seen from month m: days of
\* the month and a day of another month
Candidates(y, m) ==
  {<<y, m, d>> : d \in 1..HolidayDays}
  \cup {<<y, (m % 12) + 1, 1>>}

JapanTables(y, m) ==
  {[d \in S |-> JapanName(d)] : S \in SUBSET Candidates(y, m)}

USTables(y, m) ==
  {[d \in S |-> USName(d)] : S \in SUBSET Candidates(y, m)}

\* the era library's behaviour before its first period shows only there
EraBehaviours(y, m) ==
  IF m \in 1..12 /\ EraIndex(<<y, m, 1>>) = 0 THEN BOOLEAN ELSE {TRUE}

\* the answers of the libraries to one call of display_calendar(y, m), the
\* tables seen from month hm: either holiday constructor may raise
Libs(y, m, hm) ==
  {[hol |-> "japan_raises", jh |-> EmptyTable, uh |-> EmptyTable,
    era_strict |-> TRUE]}
  \cup [hol : {"us_raises"}, jh : JapanTables(y, hm), uh : {EmptyTable},
        era_strict : {TRUE}]
  \cup [hol : {"ok"}, jh : JapanTables(y, hm), uh : USTables(y, hm),
        era_strict : EraBehaviours(y, m)]

(***************************************************************************)
(* get_user_input                                                          *)
(***************************************************************************)
\* a bug: the lower bound of the month test is off by one
MonthOutOfRange_Loose(m) == m < 0 \/ m > 12

MonthOutOfRange(m) == m < 1 \/ m > 12

YearNotPositive(y) == y < 1

ErrorLine(msg) == [kind |-> "error", msg |-> msg]

\* get_user_input up to its second input(): the year prompt is answered
InputYear ==
  /\ pc = "input_year"
  /\ \E text \in YearTexts :
       LET r == ParseInt(text) IN
       /\ year_text' = text
       /\ month_text' = <<>>
       /\ IF r.ok
          THEN /\ year' = r.val
               /\ month' = None
               /\ out' = <<>>
               /\ pc' = "input_month"
          ELSE /\ year' = None
               /\ month' = None
               /\ out' = << ErrorLine("Please enter valid numbers") >>
               /\ pc' = "input_year"
  /\ continue_text' = <<>>
  /\ continue_choice' = <<>>
  /\ japan_holidays' = EmptyTable
  /\ us_holidays' = EmptyTable
  /\ raised' = "none"
  /\ calls' = <<>>

\* the rest of get_user_input and main's test of what it returned
InputMonth ==
  /\ pc = "input_month"
  /\ \E text \in MonthTexts :
       LET r == ParseInt(text) IN
       /\ month_text' = text
       /\ IF ~r.ok
          THEN /\ year' = None
               /\ month' = None
               /\ out' = << ErrorLine("Please enter valid numbers") >>
               /\ pc' = "input_year"
          ELSE IF MonthOutOfRange(r.val)
          THEN /\ year' = None
               /\ month' = None
               /\ out' = << ErrorLine("Month must be between 1 and 12") >>
               /\ pc' = "input_year"
          ELSE IF YearNotPositive(year)
          THEN /\ year' = None
               /\ month' = None
               /\ out' = << ErrorLine("Year must be positive") >>
               /\ pc' = "input_year"
          ELSE /\ year' = year
               /\ month' = r.val
               /\ out' = <<>>
               /\ pc' = "display"
  /\ UNCHANGED <<year_text, continue_text, continue_choice, japan_holidays,
                 us_holidays, raised, calls>>

(***************************************************************************)
(* main                                                                    *)
(***************************************************************************)
\* the try statement around display_calendar: what is on the terminal and
\* where the loop goes
\* a bug: the handler falls through to the continue prompt
AfterDisplay_FallsThrough(res) ==
  IF res.raised # "none"
  THEN [out |-> res.out \o << [kind |-> "display_error", details |-> res.raised] >>,
        pc  |-> "continue"]
  ELSE [out |-> res.out, pc |-> "continue"]

AfterDisplay(res) ==
  IF res.raised # "none"
  THEN [out |-> res.out \o << [kind |-> "display_error", details |-> res.raised] >>,
        pc  |-> "input_year"]
  ELSE [out |-> res.out, pc |-> "continue"]

Display ==
  /\ pc = "display"
  /\ \E lib \in Libs(year, month, month) :
       \E res \in {display_calendar(year, month, lib)} :
       \E nxt \in {AfterDisplay(res)} :
           /\ japan_holidays' = res.jh
           /\ us_holidays' = res.uh
           /\ raised' = res.raised
           /\ calls' = res.calls
           /\ out' = nxt.out
           /\ pc' = nxt.pc
  /\ UNCHANGED <<year_text, month_text, year, month, continue_text,
                 continue_choice>>

\* a bug: every answer that does not start with n counts as yes
IsYes_Lenient(choice) == choice = <<>> \/ Head(choice) # "n"

IsYes(choice) == choice \in { <<"y">>, <<"y", "e", "s">> }

\* a bug: the empty answer counts as no
IsNo_Lenient(choice) == choice \in { <<>>, <<"n">>, <<"n", "o">> }

IsNo(choice) == choice \in { <<"n">>, <<"n", "o">> }

\* one pass of the inner loop: the continue prompt is answered
InputContinue ==
  /\ pc = "continue"
  /\ \E text \in ContinueTexts :
       LET choice == strip(lower(text)) IN
       /\ continue_text' = text
       /\ continue_choice' = choice
       /\ IF IsYes(choice)
          THEN /\ out' = <<>>
               /\ pc' = "input_year"
          ELSE IF IsNo(choice)
          THEN /\ out' = << [kind |-> "goodbye"] >>
               /\ pc' = "done"
          ELSE /\ out' = << [kind |-> "please_answer"] >>
               /\ pc' = "continue"
  /\ japan_holidays' = EmptyTable
  /\ us_holidays' = EmptyTable
  /\ raised' = "none"
  /\ calls' = <<>>
  /\ UNCHANGED <<year_text, month_text, year, month>>

Init ==
  /\ pc = "input_year"
  /\ year_text = <<>>
  /\ month_text = <<>>
  /\ year = None
  /\ month = None
  /\ continue_text = <<>>
  /\ continue_choice = <<>>
  /\ japan_holidays = EmptyTable
  /\ us_holidays = EmptyTable
  /\ out = <<>>
  /\ raised = "none"
  /\ calls = <<>>

Next == InputYear \/ InputMonth \/ Display \/ InputContinue

Spec == Init /\ [][Next]_vars

(***************************************************************************)
(* display_calendar called on its own, with any arguments.                 *)
(***************************************************************************)
DirectYears == {0, 1, 2024}

DirectMonths == 0..13

InitDirect ==
  /\ pc = "direct"
  /\ year_text = <<>>
  /\ month_text = <<>>
  /\ year = None
  /\ month = None
  /\ continue_text = <<>>
  /\ continue_choice = <<>>
  /\ japan_holidays = EmptyTable
  /\ us_holidays = EmptyTable
  /\ out = <<>>
  /\ raised = "none"
  /\ calls = <<>>

DirectCall ==
  /\ pc = "direct"
  /\ \E y \in DirectYears, m \in DirectMonths :
       \E lib \in Libs(y, m, 1) :
         \E res \in {display_calendar(y, m, lib)} :
             /\ year' = y
             /\ month' = m
             /\ japan_holidays' = res.jh
             /\ us_holidays' = res.uh
             /\ raised' = res.raised
             /\ calls' = res.calls
             /\ out' = res.out
  /\ pc' = "returned"
  /\ UNCHANGED <<year_text, month_text, continue_text, continue_choice>>

NextDirect == DirectCall

SpecDirect == InitDirect /\ [][NextDirect]_vars

(***************************************************************************)
(* Properties.                                                             *)
(***************************************************************************)
IsRow(line) == line.kind = "row"

IsSummary(line) == line.kind = "summary"

RowLines == SelectSeq(out, IsRow)

SummaryOut == SelectSeq(out, IsSummary)

\* the state a display_calendar call that returned normally leaves
Rendered == pc = "continue" /\ calls # <<>>

\* the state a display_calendar call that raised leaves
RenderFailed == pc = "input_year" /\ raised # "none"

TextIsInt(text) == ParseInt(text).ok

TextValue(text) == ParseInt(text).val

\* C1: display_calendar is called only with a year and a month that both
\* parsed as integers, with 1 <= month <= 12 and year >= 1; a text that is
\* not an integer, a month outside 1..12 or a year below 1 makes
\* get_user_input return (None, None), no call is made for that attempt and
\* the year prompt comes next.
C1_OnlyValidInputRendered ==
  [][ /\ pc' = "display" =>
           /\ TextIsInt(year_text') /\ TextIsInt(month_text')
           /\ year' = TextValue(year_text') /\ month' = TextValue(month_text')
           /\ year' >= 1 /\ month' >= 1 /\ month' <= 12
      /\ (pc = "input_year" /\ ~TextIsInt(year_text')) =>
           pc' = "input_year" /\ year' = None /\ month' = None /\ calls' = <<>>
      /\ (pc = "input_month"
            /\ (\/ ~TextIsInt(month_text')
                \/ TextValue(month_text') < 1
                \/ TextValue(month_text') > 12
                \/ TextValue(year_text') < 1)) =>
           pc' = "input_year" /\ year' = None /\ month' = None /\ calls' = <<>>
    ]_vars

\* a month of 13 was typed after a year that parsed, and was rejected
C1_Witness ==
  /\ pc = "input_year" /\ year = None /\ month = None
  /\ TextIsInt(year_text) /\ TextValue(year_text) >= 1
  /\ month_text = <<"1", "3">>

\* C2: when display_calendar raises, the error is caught, "Error displaying
\* calendar: <details>" is the last line printed, the process goes on and
\* the year prompt comes next; the continue prompt is first reached only
\* from a call that returned normally.
C2_RenderErrorCaught ==
  [][ /\ pc = "display" =>
           /\ pc' # "done"
           /\ raised' # "none" =>
                /\ pc' = "input_year"
                /\ out' # <<>>
                /\ out'[Len(out')] = [kind |-> "display_error",
                                      details |-> raised']
      /\ (pc' = "continue" /\ pc # "continue") =>
           pc = "display" /\ raised' = "none"
    ]_vars

\* a call raised, the message was printed and the year prompt is next
C2_Witness ==
  /\ RenderFailed
  /\ out # <<>> /\ out[Len(out)].kind = "display_error"

\* C3: when a call of display_calendar fails, none of the report's lines
\* has been printed when the loop asks for the year again.
C3_NoPartialReport ==
  RenderFailed => \A k \in DOMAIN out : out[k].kind = "display_error"

\* C4: main ends only as the immediate effect of an answer to the continue
\* prompt that is "n" or "no" once lower-cased and stripped.
C4_EndsOnlyOnNo ==
  [][ pc' = "done" =>
        /\ pc = "continue"
        /\ continue_choice' = strip(lower(continue_text'))
        /\ continue_choice' \in { <<"n">>, <<"n", "o">> }
    ]_vars

\* the process ended on the answer "No"
C4_Witness == pc = "done" /\ continue_text = <<"N", "o">>

Accepted == { <<"y">>, <<"y", "e", "s">>, <<"n">>, <<"n", "o">> }

\* C5 as stated: an answer that is outside {y, yes, n, no} when compared
\* without regard to case makes the continue prompt come again.
C5_AsStated ==
  [][ (pc = "continue" /\ lower(continue_text') \notin Accepted) =>
        pc' = "continue"
    ]_vars

\* C5 amended: an answer that is outside {y, yes, n, no} once lower-cased
\* and stripped of surrounding whitespace makes only the continue prompt
\* come again: no year or month is read and no call of display_calendar is
\* made; an accepted "y" or "yes" is followed by the year prompt.
C5_OnlyContinueReprompted ==
  [][ pc = "continue" =>
        /\ strip(lower(continue_text')) \notin Accepted =>
             /\ pc' = "continue"
             /\ UNCHANGED <<year_text, month_text, year, month>>
             /\ calls' = <<>>
        /\ strip(lower(continue_text')) \in { <<"y">>, <<"y", "e", "s">> } =>
             pc' = "input_year"
    ]_vars

\* the answer "maybe" was given and the continue prompt is asked again
C5_Witness ==
  pc = "continue" /\ continue_text = <<"m", "a", "y", "b", "e">>

\* C6: called with a month outside 1..12 or a year below 1, display_calendar
\* rejects the call before it builds a holiday table and before it prints.
C6_RendererValidatesFirst ==
  (pc = "returned" /\ (month < 1 \/ month > 12 \/ year < 1)) =>
    raised # "none" /\ calls = <<>> /\ out = <<>>

\* the days of month m of year y in the Gregorian calendar
GregorianDays(y, m) ==
  IF m \in {4, 6, 9, 11} THEN 30
  ELSE IF m # 2 THEN 31
  ELSE IF y % 400 = 0 THEN 29
  ELSE IF y % 100 = 0 THEN 28
  ELSE IF y % 4 = 0 THEN 29
  ELSE 28

\* C7: a call that returned normally printed one row per day of the month,
\* none for a padding cell, in the order 1..N, N the days of the month.
C7_OneRowPerDay ==
  Rendered =>
    /\ Len(RowLines) = GregorianDays(year, month)
    /\ \A k \in DOMAIN RowLines :
         /\ RowLines[k].day = k
         /\ RowLines[k].western_date = [Y |-> year, m |-> month, d |-> k]

\* February 2024, whose grid has padding cells, was printed with 29 rows
C7_Witness ==
  Rendered /\ year = 2024 /\ month = 2 /\ Len(RowLines) = 29

\* C8: the annotations of a day hold the Japan-marked name iff the date is
\* in the Japan table and the US-marked name iff it is in the US table,
\* each with that table's name, Japan first; none when it is in neither.
C8_AnnotationsMatchTables ==
  \A k \in DOMAIN out :
    IsRow(out[k]) =>
      LET d  == <<year, month, out[k].day>>
          h  == out[k].holidays
          jp == d \in DOMAIN japan_holidays
          us == d \in DOMAIN us_holidays
      IN  /\ Len(h) = (IF jp THEN 1 ELSE 0) + (IF us THEN 1 ELSE 0)
          /\ jp => h[1] = [marker |-> JapanMarker, name |-> japan_holidays[d]]
          /\ us => h[Len(h)] = [marker |-> USMarker, name |-> us_holidays[d]]

\* a day that is in both tables was printed with its two annotations, and a
\* day that is in neither with none
C8_Witness ==
  /\ \E k \in DOMAIN out : IsRow(out[k]) /\ Len(out[k].holidays) = 2
  /\ \E k \in DOMAIN out : IsRow(out[k]) /\ Len(out[k].holidays) = 0

SummaryDate(line) ==
  <<line.western_date.Y, line.western_date.m, line.western_date.d>>

\* the holidays of the two tables that fall in the displayed month
MonthHolidaySet ==
  {<<d, "Japan", japan_holidays[d]>> :
     d \in {e \in DOMAIN japan_holidays : e[1] = year /\ e[2] = month}}
  \cup
  {<<d, "US", us_holidays[d]>> :
     d \in {e \in DOMAIN us_holidays : e[1] = year /\ e[2] = month}}

\* C9: the summary lists exactly the holidays of the two tables whose date
\* is in the displayed year and month, one line each, by non-decreasing
\* date; the "no holidays" notice is printed iff there is none.
C9_SummaryIsMonthHolidays ==
  Rendered =>
    /\ {<<SummaryDate(SummaryOut[k]), SummaryOut[k].desc.country,
          SummaryOut[k].desc.name>> : k \in DOMAIN SummaryOut} = MonthHolidaySet
    /\ Len(SummaryOut) = Cardinality(MonthHolidaySet)
    /\ \A i, j \in DOMAIN SummaryOut :
         i < j => ~DateLT(SummaryDate(SummaryOut[j]), SummaryDate(SummaryOut[i]))
    /\ (\E k \in DOMAIN out : out[k].kind = "no_holidays")
         <=> MonthHolidaySet = {}
    /\ (\E k \in DOMAIN out : out[k].kind = "no_holidays")
         => SummaryOut = <<>>

\* a summary of holidays on two dates was printed while a table also held
\* a holiday of another month
C9_Witness ==
  /\ Rendered
  /\ Len(SummaryOut) >= 3
  /\ \E d \in DOMAIN japan_holidays : d[2] # month
  /\ \E i, j \in DOMAIN SummaryOut :
       SummaryDate(SummaryOut[i]) # SummaryDate(SummaryOut[j])

\* C10: when a date is a holiday in both tables, the summary prints the
\* Japan line before the US line.
C10_JapanBeforeUS ==
  Rendered =>
    \A i, j \in DOMAIN SummaryOut :
      (/\ SummaryDate(SummaryOut[i]) = SummaryDate(SummaryOut[j])
       /\ SummaryOut[i].desc.country = "Japan"
       /\ SummaryOut[j].desc.country = "US") => i < j

====
